---- MODULE Spec2Model ----
(***************************************************************************)
(* Model of main.py: the /register and /identify handlers of the face      *)
(* recognition service, the folder-per-identity store under DB_PATH and    *)
(* the index file representations_sface.pkl that DeepFace.find keeps there.*)
(*                                                                         *)
(* Strings are sequences of tokens: a token is a path separator "/" or a   *)
(* name without separators.  The file system maps resolved paths (lists   *)
(* of names, relative to the working directory) to nodes.                  *)
(*                                                                         *)
(* Each worker handles one request at a time, one file-system call per     *)
(* step.  Spec lets two workers overlap (several server processes on one   *)
(* disk); SpecSeq runs the requests of a single worker one after another.  *)
(* Every file-system or library call may also fail for a reason outside    *)
(* the model (disk full, permissions, model loading): the fault choices.   *)
(***************************************************************************)
EXTENDS Integers, Sequences, FiniteSets, TLC

\* ---------------------------------------------------------------- bounds
MaxImg == 3
MaxReqs == 3
MaxSeqReqs == 4

\* ------------------------------------------------------------- constants
\* Undecodable bytes: an empty or truncated file, or an upload that is no image.
Junk == 0
\* Largest distance DeepFace.find accepts as a match (model SFace, metric cosine).
Threshold == 1

SEP == "/"
DB_PATH == <<"face_db_local">>
FACE_JPG == <<"face.jpg">>
REPRESENTATIONS == <<"representations_sface.pkl">>

Images == 1 .. MaxImg
Contents == Images \cup {Junk}
\* user_id is an arbitrary form string.
UserIds == { <<"a">>, <<"a", "/">>, <<"a", "/", "b">> }
Procs == {"w1", "w2"}
SeqProc == "w1"

\* ------------------------------------------------------------ path strings
\* posixpath.join(a, b)
Join(a, b) ==
  IF b # <<>> /\ Head(b) = SEP THEN b
  ELSE IF a = <<>> \/ a[Len(a)] = SEP THEN a \o b
  ELSE a \o <<SEP>> \o b

\* Index just after the last separator of p, minus one (p.rfind("/") + 1).
LastSep(p) ==
  LET S == { i \in 1 .. Len(p) : p[i] = SEP }
  IN  IF S = {} THEN 0 ELSE CHOOSE i \in S : \A j \in S : j <= i

RECURSIVE RStrip(_)
RStrip(p) ==
  IF p # <<>> /\ p[Len(p)] = SEP THEN RStrip(SubSeq(p, 1, Len(p) - 1)) ELSE p

\* posixpath.dirname(p)
Dirname(p) ==
  LET head == SubSeq(p, 1, LastSep(p))
  IN  IF head # <<>> /\ (\E i \in 1 .. Len(head) : head[i] # SEP)
      THEN RStrip(head) ELSE head

\* posixpath.basename(p)
Basename(p) == SubSeq(p, LastSep(p) + 1, Len(p))

\* Path resolution by the operating system: the list of names a relative
\* path string denotes.
RECURSIVE ResolveFrom(_, _)
ResolveFrom(p, acc) ==
  IF p = <<>> THEN acc
  ELSE LET t == Head(p)
       IN  IF t = SEP \/ t = "." THEN ResolveFrom(Tail(p), acc)
           ELSE IF t = ".."
                THEN ResolveFrom(Tail(p),
                       IF acc = <<>> THEN acc ELSE SubSeq(acc, 1, Len(acc) - 1))
                ELSE ResolveFrom(Tail(p), Append(acc, t))

Resolve(p) == ResolveFrom(p, <<>>)

\* The path string os.walk(DB_PATH) reports for a resolved path, as
\* DeepFace.find builds it: r + "/" + file.
RECURSIVE PathStr(_)
PathStr(c) ==
  IF Len(c) <= 1 THEN c
  ELSE PathStr(SubSeq(c, 1, Len(c) - 1)) \o <<SEP, c[Len(c)]>>

IsPrefix(a, b) == Len(a) <= Len(b) /\ SubSeq(b, 1, Len(a)) = a
Parent(c) == SubSeq(c, 1, Len(c) - 1)

\* -------------------------------------------------------------- file system
Dir == [kind |-> "dir", data |-> Junk, pickled |-> FALSE, index |-> {}]
File(c) == [kind |-> "file", data |-> c, pickled |-> FALSE, index |-> {}]
Pickle(reps) == [kind |-> "file", data |-> Junk, pickled |-> TRUE, index |-> reps]

\* os.path.exists(p)
NeverExists(f, p) == FALSE
Exists(f, p) == Resolve(p) \in DOMAIN f
IsDir(f, c) == c \in DOMAIN f /\ f[c].kind = "dir"
IsFile(f, c) == c \in DOMAIN f /\ f[c].kind = "file"

Put(f, c, node) == [q \in DOMAIN f \cup {c} |-> IF q = c THEN node ELSE f[q]]

Prefixes(c) == { SubSeq(c, 1, k) : k \in 1 .. Len(c) }

\* os.makedirs(p, exist_ok=True)
MakedirsFails(f, p) == \E q \in Prefixes(Resolve(p)) : IsFile(f, q)
MakedirsResult(f, p) ==
  [q \in DOMAIN f \cup Prefixes(Resolve(p)) |-> IF q \in DOMAIN f THEN f[q] ELSE Dir]

\* open(p, "wb"): creates or truncates the file.
OpenFails(f, p) == IsDir(f, Resolve(p)) \/ ~IsDir(f, Parent(Resolve(p)))
OpenUnique(f, p) ==
  IF Resolve(p) \in DOMAIN f
  THEN Put(f, Append(Parent(Resolve(p)), "face_1.jpg"), File(Junk))
  ELSE Put(f, Resolve(p), File(Junk))
OpenWb(f, p) == Put(f, Resolve(p), File(Junk))

\* f.write(contents) on the file opened at p
WriteNothing(f, p, contents) == f
WriteFile(f, p, contents) == Put(f, Resolve(p), File(contents))

\* os.remove(p)
RemoveFails(f, p) == ~IsFile(f, Resolve(p))
RemoveNothing(f, p) == f
Remove(f, p) == [q \in DOMAIN f \ {Resolve(p)} |-> f[q]]

\* ------------------------------------------------------- paths of the code
UserFolderPath(user_id) == Join(DB_PATH, user_id)
RegFilePath(user_id) == Join(UserFolderPath(user_id), FACE_JPG)
RepresentationsPath == Join(DB_PATH, REPRESENTATIONS)

\* ------------------------------------------------- the library: DeepFace.find
Decodable(c) == c # Junk
Dist(x, y) == IF x >= y THEN x - y ELSE y - x

\* The image files os.walk(DB_PATH) finds: of the names that occur here,
\* those containing ".jpg".
IsImageName(n) == n \in {"face.jpg", "face_1.jpg"}
Employees(f) ==
  { c \in DOMAIN f : IsFile(f, c) /\ IsPrefix(Resolve(DB_PATH), c)
                     /\ IsImageName(c[Len(c)]) }

\* The representations find() computes when there is no index file: one
\* row per image file, its path string and the embedding of its contents.
ScanIndex(f) == { [identity |-> PathStr(c), rep |-> f[c].data] : c \in Employees(f) }

\* The result tables find() may return for a target image: the rows within
\* the threshold, in ascending order of distance (equal distances in any order).
Candidates(reps, target) == { e \in reps : Dist(e.rep, target) <= Threshold }
Ranked(reps, target) ==
  LET C == Candidates(reps, target)
      n == Cardinality(C)
  IN  { s \in [1 .. n -> C] :
          /\ \A i, j \in 1 .. n : i # j => s[i] # s[j]
          /\ \A i, j \in 1 .. n :
               i < j => Dist(s[i].rep, target) <= Dist(s[j].rep, target) }

\* ------------------------------------------------- responses and exceptions
NoExc == [type |-> "none", code |-> 0, at |-> "none"]
Exc(at) == [type |-> "Exception", code |-> 0, at |-> at]
HTTPException(code, detail) == [type |-> "HTTPException", code |-> code, at |-> detail]

NoResp == [code |-> 0, status |-> "none", user_id |-> <<>>, detail |-> "none"]
Success(user_id) ==
  [code |-> 200, status |-> "success", user_id |-> user_id, detail |-> "none"]
MatchFound(user_id) ==
  [code |-> 200, status |-> "match_found", user_id |-> user_id, detail |-> "none"]
ErrorResp(e) == [code |-> e.code, status |-> "error", user_id |-> <<>>, detail |-> e.at]

\* except Exception in register_face
RegisterExcept(e) == ErrorResp(HTTPException(500, e.at))

\* except HTTPException / except Exception in identify_face
ConvertAll(e) == ErrorResp(HTTPException(500, e.at))
IdentifyExcept(e) ==
  IF e.type = "HTTPException" THEN ErrorResp(e) ELSE ErrorResp(HTTPException(500, e.at))

\* not dfs or dfs[0].empty
EmptyListOnly(tables) == tables = <<>>
IsNoMatch(tables) == tables = <<>> \/ tables[1] = <<>>

\* os.path.basename(os.path.dirname(identity_path))
UserIdOf(identity_path) == Basename(Dirname(identity_path))

\* ----------------------------------------------------------------- state
VARIABLES
  fs,          \* the file system: resolved path -> node
  pc,          \* each worker's position in its handler
  req,         \* the request a worker is handling
  reps,        \* identify: the representations find() works on
  dfs,         \* identify: what find() returned
  resp,        \* the response of the worker's last request
  raised,      \* the exception raised inside the handler's try block, if any
  fdLive,      \* the worker's open index file is still linked at its path
  prev,        \* history: the request before the latest one, if both came to
               \*          the same worker and it was a Register that answered success
  pre,         \* history: what the image file of the latest Register held, the
               \*          user id that file was committed for, and whether the
               \*          index file existed, when the request arrived
  committed,   \* history: image file -> user id and contents of the last
               \*          Register of it, once that Register has answered success
  overlapped,  \* history: some request arrived while another was in progress
  nreq         \* number of requests received

vars == <<fs, pc, req, reps, dfs, resp, raised, fdLive, prev, pre, committed,
          overlapped, nreq>>

\* The contents of the file at p, Absent when there is no such file.
Absent == 0 - 1
Holds(f, p) == IF IsFile(f, Resolve(p)) THEN f[Resolve(p)].data ELSE Absent

NoPre == [image |-> Absent, owner |-> <<>>, index |-> FALSE]
NoReq == [kind |-> "none", user_id |-> <<>>, contents |-> Junk]
NoDfs == [returned |-> FALSE, tables |-> <<>>]

Init ==
  /\ fs = [c \in {Resolve(DB_PATH)} |-> Dir]
  /\ pc = [p \in Procs |-> "idle"]
  /\ req = [p \in Procs |-> NoReq]
  /\ reps = [p \in Procs |-> {}]
  /\ dfs = [p \in Procs |-> NoDfs]
  /\ resp = [p \in Procs |-> NoResp]
  /\ raised = [p \in Procs |-> NoExc]
  /\ fdLive = [p \in Procs |-> FALSE]
  /\ prev = NoReq
  /\ pre = NoPre
  /\ committed = <<>>
  /\ overlapped = FALSE
  /\ nreq = 0

Commit(user_id, contents) ==
  LET c == Resolve(RegFilePath(user_id))
  IN  [q \in DOMAIN committed \cup {c} |->
         IF q = c THEN [user_id |-> user_id, rep |-> contents] ELSE committed[q]]
Owner(user_id) ==
  LET c == Resolve(RegFilePath(user_id))
  IN  IF c \in DOMAIN committed THEN committed[c].user_id ELSE <<>>
Uncommit(user_id) ==
  [q \in DOMAIN committed \ {Resolve(RegFilePath(user_id))} |-> committed[q]]

Finish(p, r, e) ==
  /\ pc' = [pc EXCEPT ![p] = "done"]
  /\ resp' = [resp EXCEPT ![p] = r]
  /\ raised' = [raised EXCEPT ![p] = e]
Goto(p, l) ==
  /\ pc' = [pc EXCEPT ![p] = l]
  /\ UNCHANGED <<resp, raised>>
RegRaise(p, e) == Finish(p, RegisterExcept(e), e)
IdRaise(p, e) == Finish(p, IdentifyExcept(e), e)

Receive(p, r, max) ==
  /\ pc[p] \in {"idle", "done"}
  /\ nreq < max
  /\ nreq' = nreq + 1
  /\ req' = [req EXCEPT ![p] = r]
  /\ prev' = IF resp[p].status = "success" THEN req[p] ELSE NoReq
  /\ pre' = IF r.kind = "register"
            THEN [image |-> Holds(fs, RegFilePath(r.user_id)),
                  owner |-> Owner(r.user_id),
                  index |-> Exists(fs, RepresentationsPath)]
            ELSE pre
  /\ overlapped' = (overlapped \/ \E q \in Procs \ {p} : pc[q] \notin {"idle", "done"})
  /\ reps' = [reps EXCEPT ![p] = {}]
  /\ dfs' = [dfs EXCEPT ![p] = NoDfs]

\* ------------------------------------------------------------ register_face
\* The request arrives; contents = await file.read()
RegisterStart(p, max) ==
  \E u \in UserIds, c \in Images, fault \in BOOLEAN :
    /\ Receive(p, [kind |-> "register", user_id |-> u, contents |-> c], max)
    /\ IF fault THEN RegRaise(p, Exc("read")) ELSE Goto(p, "r_makedirs")
    /\ UNCHANGED <<fs, fdLive, committed>>

\* os.makedirs(user_folder_path, exist_ok=True)
Makedirs(p) ==
  /\ pc[p] = "r_makedirs"
  /\ \E fault \in BOOLEAN :
       LET path == UserFolderPath(req[p].user_id)
       IN  IF fault \/ MakedirsFails(fs, path)
           THEN RegRaise(p, Exc("makedirs")) /\ UNCHANGED fs
           ELSE fs' = MakedirsResult(fs, path) /\ Goto(p, "r_open")
  /\ UNCHANGED <<req, reps, dfs, fdLive, prev, pre, committed, overlapped, nreq>>

\* with open(file_path, "wb") as f:
OpenImageLate(p) ==
  /\ pc[p] = "r_open"
  /\ \E fault \in BOOLEAN :
       LET path == RegFilePath(req[p].user_id)
       IN  IF OpenFails(fs, path)
           THEN RegRaise(p, Exc("open")) /\ UNCHANGED <<fs, committed>>
           ELSE /\ fs' = OpenWb(fs, path)
                /\ committed' = Uncommit(req[p].user_id)
                /\ IF fault THEN RegRaise(p, Exc("open")) ELSE Goto(p, "r_write")
  /\ UNCHANGED <<req, reps, dfs, fdLive, prev, pre, overlapped, nreq>>
OpenImage(p) ==
  /\ pc[p] = "r_open"
  /\ \E fault \in BOOLEAN :
       LET path == RegFilePath(req[p].user_id)
       IN  IF fault \/ OpenFails(fs, path)
           THEN RegRaise(p, Exc("open")) /\ UNCHANGED <<fs, committed>>
           ELSE /\ fs' = OpenWb(fs, path)
                /\ committed' = Uncommit(req[p].user_id)
                /\ Goto(p, "r_write")
  /\ UNCHANGED <<req, reps, dfs, fdLive, prev, pre, overlapped, nreq>>

\* f.write(contents)
WriteImage(p) ==
  /\ pc[p] = "r_write"
  /\ \E fault \in BOOLEAN :
       IF fault
       THEN RegRaise(p, Exc("write")) /\ UNCHANGED fs
       ELSE /\ fs' = WriteFile(fs, RegFilePath(req[p].user_id), req[p].contents)
            /\ Goto(p, "r_exists")
  /\ UNCHANGED <<req, reps, dfs, fdLive, prev, pre, committed, overlapped, nreq>>

\* if os.path.exists(representations_path): ... else return success
CheckIndex(p) ==
  /\ pc[p] = "r_exists"
  /\ IF Exists(fs, RepresentationsPath)
     THEN Goto(p, "r_remove") /\ UNCHANGED committed
     ELSE /\ Finish(p, Success(req[p].user_id), NoExc)
          /\ committed' = Commit(req[p].user_id, req[p].contents)
  /\ UNCHANGED <<fs, req, reps, dfs, fdLive, prev, pre, overlapped, nreq>>

\* os.remove(representations_path); return success
RemoveIndex(p) ==
  /\ pc[p] = "r_remove"
  /\ \E fault \in BOOLEAN :
       IF fault \/ RemoveFails(fs, RepresentationsPath)
       THEN RegRaise(p, Exc("remove")) /\ UNCHANGED <<fs, fdLive, committed>>
       ELSE /\ fs' = Remove(fs, RepresentationsPath)
            /\ fdLive' = [q \in Procs |-> FALSE]
            /\ Finish(p, Success(req[p].user_id), NoExc)
            /\ committed' = Commit(req[p].user_id, req[p].contents)
  /\ UNCHANGED <<req, reps, dfs, prev, pre, overlapped, nreq>>

\* ------------------------------------------------------------ identify_face
\* What the handler does with the tables find() returned (lines 97-109).
Respond(p, tables) ==
  IF IsNoMatch(tables)
  THEN IdRaise(p, HTTPException(404, "No matching face was found in the database."))
  ELSE IF tables[1] = <<>>
       THEN IdRaise(p, Exc("iloc"))
       ELSE Finish(p, MatchFound(UserIdOf(tables[1][1].identity)), NoExc)

\* The request arrives; image_bytes = await file.read(); Image.open(...)
IdentifyStart(p, max) ==
  \E c \in Contents, fault \in BOOLEAN :
    /\ Receive(p, [kind |-> "identify", user_id |-> <<>>, contents |-> c], max)
    /\ IF fault THEN IdRaise(p, Exc("read"))
       ELSE IF ~Decodable(c) THEN IdRaise(p, Exc("decode"))
       ELSE Goto(p, "i_find")
    /\ UNCHANGED <<fs, fdLive, committed>>

\* DeepFace.find: path.exists(db_path + "/" + file_name)
FindIndex(p) ==
  /\ pc[p] = "i_find"
  /\ \E fault \in BOOLEAN :
       IF fault THEN IdRaise(p, Exc("find"))
       ELSE IF Exists(fs, RepresentationsPath) THEN Goto(p, "i_load")
       ELSE Goto(p, "i_scan")
  /\ UNCHANGED <<fs, req, reps, dfs, fdLive, prev, pre, committed, overlapped, nreq>>

\* DeepFace.find: representations = pickle.load(f)
LoadIndex(p) ==
  /\ pc[p] = "i_load"
  /\ LET c == Resolve(RepresentationsPath)
     IN  IF ~IsFile(fs, c) \/ ~fs[c].pickled
         THEN IdRaise(p, Exc("load")) /\ UNCHANGED reps
         ELSE reps' = [reps EXCEPT ![p] = fs[c].index] /\ Goto(p, "i_search")
  /\ UNCHANGED <<fs, req, dfs, fdLive, prev, pre, committed, overlapped, nreq>>

\* DeepFace.find: walk db_path and represent every image found (taken as
\* one step).  With no image at all the library either raises ValueError or
\* returns no table, depending on its version.
ScanFolders(p) ==
  /\ pc[p] = "i_scan"
  /\ IF Employees(fs) = {}
     THEN /\ \E raises \in BOOLEAN :
               IF raises THEN IdRaise(p, Exc("noimages")) /\ UNCHANGED dfs
               ELSE /\ dfs' = [dfs EXCEPT ![p] = [returned |-> TRUE, tables |-> <<>>]]
                    /\ Respond(p, <<>>)
          /\ UNCHANGED reps
     ELSE IF \E c \in Employees(fs) : ~Decodable(fs[c].data)
          THEN IdRaise(p, Exc("represent")) /\ UNCHANGED <<reps, dfs>>
          ELSE /\ reps' = [reps EXCEPT ![p] = ScanIndex(fs)]
               /\ Goto(p, "i_dumpopen")
               /\ UNCHANGED dfs
  /\ UNCHANGED <<fs, req, fdLive, prev, pre, committed, overlapped, nreq>>

\* DeepFace.find: with open(f"{db_path}/{file_name}", "wb") as f:
OpenIndex(p) ==
  /\ pc[p] = "i_dumpopen"
  /\ \E fault \in BOOLEAN :
       IF fault \/ OpenFails(fs, RepresentationsPath)
       THEN IdRaise(p, Exc("dumpopen")) /\ UNCHANGED <<fs, fdLive>>
       ELSE /\ fs' = OpenWb(fs, RepresentationsPath)
            /\ fdLive' = [fdLive EXCEPT ![p] = TRUE]
            /\ Goto(p, "i_dump")
  /\ UNCHANGED <<req, reps, dfs, prev, pre, committed, overlapped, nreq>>

\* DeepFace.find: pickle.dump(representations, f).  A file removed since it
\* was opened stays removed: the bytes go to the unlinked file.
DumpIndex(p) ==
  /\ pc[p] = "i_dump"
  /\ fs' = IF fdLive[p] THEN Put(fs, Resolve(RepresentationsPath), Pickle(reps[p])) ELSE fs
  /\ fdLive' = [fdLive EXCEPT ![p] = FALSE]
  /\ Goto(p, "i_search")
  /\ UNCHANGED <<req, reps, dfs, prev, pre, committed, overlapped, nreq>>

\* DeepFace.find: rank the representations against the target and return;
\* then lines 97-109 of the handler.
Search(p) ==
  /\ pc[p] = "i_search"
  /\ \E rows \in Ranked(reps[p], req[p].contents) :
       /\ dfs' = [dfs EXCEPT ![p] = [returned |-> TRUE, tables |-> <<rows>>]]
       /\ Respond(p, <<rows>>)
  /\ UNCHANGED <<fs, req, reps, fdLive, prev, pre, committed, overlapped, nreq>>

\* ------------------------------------------------------------ specifications
Step(p, max) ==
  \/ RegisterStart(p, max)
  \/ Makedirs(p)
  \/ OpenImage(p)
  \/ WriteImage(p)
  \/ CheckIndex(p)
  \/ RemoveIndex(p)
  \/ IdentifyStart(p, max)
  \/ FindIndex(p)
  \/ LoadIndex(p)
  \/ ScanFolders(p)
  \/ OpenIndex(p)
  \/ DumpIndex(p)
  \/ Search(p)

Next == \E p \in Procs : Step(p, MaxReqs)
Spec == Init /\ [][Next]_vars

\* Requests one after another: a single worker.
NextSeq == Step(SeqProc, MaxSeqReqs)
SpecSeq == Init /\ [][NextSeq]_vars

\* ------------------------------------------------------------------ claims
Done(p) == pc[p] = "done"
Quiet == \A p \in Procs : pc[p] \in {"idle", "done"}
IndexNode == Resolve(RepresentationsPath)
NoMatchResp ==
  [code |-> 404, status |-> "error", user_id |-> <<>>,
   detail |-> "No matching face was found in the database."]
\* The files a folder holds directly, the index file apart.
ImagesIn(d) == { c \in DOMAIN fs : IsFile(fs, c) /\ Parent(c) = d /\ c # IndexNode }
\* The rows of an index for the image file c.
RowsOf(index, c) == { e \in index : e.identity = PathStr(c) }
\* An index agrees with every registration that has answered success.
AgreesWithCommitted(index) ==
  \A c \in DOMAIN committed :
    RowsOf(index, c) = { [identity |-> PathStr(c), rep |-> committed[c].rep] }

\* C1: in every state reached by a sequence of Register and Identify
\* requests, every folder of the store holds at most one image file, and
\* that file is named face.jpg; re-registration overwrites it.
C1_OneImagePerFolder ==
  \A d \in DOMAIN fs :
    IsDir(fs, d) =>
      /\ Cardinality(ImagesIn(d)) <= 1
      /\ \A c \in ImagesIn(d) : c[Len(c)] = "face.jpg"

\* C1 witness: a Register of an identity that already had another image has
\* answered success, and the folder holds one image file, the new image.
C1_Witness ==
  /\ Done(SeqProc) /\ req[SeqProc].kind = "register"
  /\ resp[SeqProc].status = "success"
  /\ pre.image \in Images /\ pre.image # req[SeqProc].contents
  /\ Holds(fs, RegFilePath(req[SeqProc].user_id)) = req[SeqProc].contents
  /\ Cardinality(ImagesIn(Resolve(UserFolderPath(req[SeqProc].user_id)))) = 1

\* C2: when requests run one after another, right after a Register has
\* answered success the index file does not exist, whether or not it
\* existed when the request arrived.
C2_RegisterRemovesIndex ==
  (Done(SeqProc) /\ req[SeqProc].kind = "register" /\ resp[SeqProc].status = "success")
    => IndexNode \notin DOMAIN fs

\* C2 witness: a Register that found an index file has answered success.
C2_Witness ==
  /\ Done(SeqProc) /\ req[SeqProc].kind = "register"
  /\ resp[SeqProc].status = "success"
  /\ pre.index
  /\ IndexNode \notin DOMAIN fs

\* C3: when requests run one after another, a Register(id, img) of an image
\* that answered success, followed directly by Identify(img), is answered
\* match_found with user_id = id, unless Identify ends in the generic
\* failure response.
C3_RegisterThenIdentify ==
  ( /\ Done(SeqProc) /\ req[SeqProc].kind = "identify"
    /\ prev.kind = "register"
    /\ prev.contents = req[SeqProc].contents
    /\ req[SeqProc].contents \in Images
    /\ resp[SeqProc].code # 500 )
    => resp[SeqProc] = MatchFound(prev.user_id)

C5_NoCandidateIsNoMatch ==
  \A p \in Procs :
    ( /\ Done(p) /\ req[p].kind = "identify" /\ dfs[p].returned
      /\ (dfs[p].tables = <<>> \/ dfs[p].tables[1] = <<>>) )
      => resp[p] = NoMatchResp

\* C5 witness: an Identify got an empty table from a store that holds a
\* registered image, and was answered 404.
C5_Witness ==
  /\ Done(SeqProc) /\ req[SeqProc].kind = "identify" /\ dfs[SeqProc].returned
  /\ dfs[SeqProc].tables = << <<>> >>
  /\ reps[SeqProc] # {}
  /\ committed # <<>>
  /\ resp[SeqProc] = NoMatchResp

\* An Identify got no table at all from a store without images, and was
\* answered 404 (the other case of C5).
C5_EmptyStoreReached ==
  /\ Done(SeqProc) /\ req[SeqProc].kind = "identify" /\ dfs[SeqProc].returned
  /\ dfs[SeqProc].tables = <<>>
  /\ Employees(fs) = {}
  /\ resp[SeqProc] = NoMatchResp

\* C6: when Identify answers match_found, user_id is the name of the folder
\* of the first-ranked row, and it is a user id some Register has written
\* an image for (or another spelling of that user id's folder).
C6_MatchIsRegistered ==
  ( /\ Done(SeqProc) /\ req[SeqProc].kind = "identify"
    /\ resp[SeqProc].status = "match_found" )
    => /\ resp[SeqProc].user_id = UserIdOf(dfs[SeqProc].tables[1][1].identity)
       /\ \E u \in UserIds :
            /\ IsFile(fs, Resolve(RegFilePath(u)))
            /\ Resolve(UserFolderPath(u)) = Resolve(UserFolderPath(resp[SeqProc].user_id))

\* C7: every finished request has one outcome: success without exception,
\* the generic 500 for every exception other than Identify's own 404, and
\* that 404 passed on unchanged; Register never answers 404.
C7_ErrorsBecome500 ==
  \A p \in Procs :
    Done(p) =>
      /\ raised[p].type = "none" =>
           /\ resp[p].code = 200
           /\ resp[p].status =
                (IF req[p].kind = "register" THEN "success" ELSE "match_found")
      /\ raised[p].type = "Exception" =>
           (resp[p].code = 500 /\ resp[p].status = "error")
      /\ raised[p].type = "HTTPException" =>
           (req[p].kind = "identify" /\ raised[p].code = 404 /\ resp[p] = NoMatchResp)
      /\ resp[p].code \in {200, 404, 500}

\* C7 witness: an Identify raised its 404 inside the try block and the
\* response is that 404, not the generic 500.
C7_Witness ==
  /\ Done(SeqProc) /\ req[SeqProc].kind = "identify"
  /\ raised[SeqProc].type = "HTTPException"
  /\ resp[SeqProc].code = 404

\* A request ended in the generic 500 after an exception (the other case
\* of C7).
C7_GenericReached ==
  \E p \in Procs :
    Done(p) /\ raised[p].type = "Exception" /\ resp[p].code = 500

\* C8: when requests run one after another, no step of a Register changes
\* an image file other than <DB_PATH>/<id>/face.jpg, and a Register that
\* answers success echoes its user id, leaves the uploaded bytes in that
\* file, and has not changed the image committed for another user id.
C8_RegisterFrame ==
  [][ (req[SeqProc].kind = "register" /\ pc[SeqProc] \notin {"idle", "done"})
        => /\ \A c \in DOMAIN fs \ {Resolve(RegFilePath(req[SeqProc].user_id)), IndexNode} :
                c \in DOMAIN fs' /\ fs'[c] = fs[c]
           /\ (pc'[SeqProc] = "done" /\ resp'[SeqProc].status = "success")
                => /\ resp'[SeqProc].user_id = req[SeqProc].user_id
                   /\ Holds(fs', RegFilePath(req[SeqProc].user_id))
                        = req[SeqProc].contents
                   /\ pre.owner \notin {<<>>, req[SeqProc].user_id}
                        => Holds(fs', RegFilePath(req[SeqProc].user_id)) = pre.image
    ]_vars

C10_FailedRegisterIsClean ==
  ( /\ Done(SeqProc) /\ req[SeqProc].kind = "register" /\ resp[SeqProc].code = 500
    /\ IsFile(fs, IndexNode) /\ fs[IndexNode].pickled )
    => Holds(fs, RegFilePath(req[SeqProc].user_id)) = pre.image

\* C10 (amended): a Register that ended in the 500 response has changed its
\* image file only if it failed while writing the image, which leaves the
\* file truncated, or at a later step, which leaves the uploaded bytes in
\* the file.
C10_FailedRegisterPartial ==
  ( /\ Done(SeqProc) /\ req[SeqProc].kind = "register" /\ resp[SeqProc].code = 500
    /\ Holds(fs, RegFilePath(req[SeqProc].user_id)) # pre.image )
    => \/ /\ raised[SeqProc].at = "write"
          /\ Holds(fs, RegFilePath(req[SeqProc].user_id)) = Junk
       \/ /\ raised[SeqProc].at = "remove"
          /\ Holds(fs, RegFilePath(req[SeqProc].user_id)) = req[SeqProc].contents

\* C10 witness: a Register failed while removing an index built before,
\* and its new image is on disk beside that index.
C10_Witness ==
  /\ Done(SeqProc) /\ req[SeqProc].kind = "register" /\ resp[SeqProc].code = 500
  /\ raised[SeqProc].at = "remove"
  /\ pre.image \in Images
  /\ Holds(fs, RegFilePath(req[SeqProc].user_id)) # pre.image
  /\ IsFile(fs, IndexNode) /\ fs[IndexNode].pickled

====
